---- MODULE Spec2Model ----
(***************************************************************************)
(* State-machine model of the geospatial feature-extraction core of the    *)
(* resale price predictor: MeanEncoder (src/utils.py:5-54) and             *)
(* count_nearby (src/utils.py:56-77).                                      *)
(*                                                                         *)
(* Distances are integers in hundredths of a kilometre; the rounded        *)
(* nearest distance is an integer in tenths of a kilometre.  Means are     *)
(* kept as exact fractions [sum, cnt] and compared by cross-multiplying.   *)
(***************************************************************************)
EXTENDS Integers, Sequences, FiniteSets, TLC

VARIABLES
    encoding,          \* MeanEncoder.encoding: None or dict category -> rank
    inverse_encoding,  \* MeanEncoder.inverse_encoding: None or dict rank -> category
    trainX,            \* the training DataFrame the encoder is fitted on
    encOut,            \* the last encoder call: [op, arg, exc, val]
    argsortTies,       \* order numpy's quicksort leaves equal keys in (per build)
    df0,               \* the facility DataFrame as loaded, before any query
    df,                \* the facility DataFrame the queries are given
    last,              \* the last count_nearby call: arguments and outcome
    first,             \* the first count_nearby call: arguments and outcome
    between,           \* a call with other arguments than the first has run since
    variant,           \* which script runs: "resale" (resale-price-predictor.py) or "st" (st.py)
    page,              \* st.session_state.page
    clicked_coords,    \* st.session_state.clicked_coords
    town,              \* st.session_state.town
    ui                 \* the last script run: what ran, what it showed, what it posted

vars == <<encoding, inverse_encoding, trainX, encOut, argsortTies, df0, df, last, first, between,
          variant, page, clicked_coords, town, ui>>

encVars == <<encoding, inverse_encoding, trainX, encOut>>
qryVars == <<df0, df, last, first, between>>
appVars == <<variant, page, clicked_coords, town, ui>>

----------------------------------------------------------------------------
(* Bounds of the model *)

MaxSamples == 3     \* rows of a DataFrame given to fit
MaxRows == 3        \* rows of a facility DataFrame
MaxBlocks == 2      \* rows of the street_blocks DataFrame of the application

(* Data the model draws its inputs from *)

\* category keys in the order pandas' groupby (sort=True) lists them
CatKeys == <<"East", "North", "West">>
Cats == {CatKeys[i] : i \in DOMAIN CatKeys}
Prices == {100, 200, 300}

None == [t |-> "None"]
Dict(f) == [t |-> "dict", d |-> f]

\* The tie orders the model covers for n positions: equal keys left in their
\* input order (what an insertion sort of a short array does), or reversed.
TieOrders(n) == {[i \in 1..n |-> i], [i \in 1..n |-> n + 1 - i]}

SeqsUpTo(S, n) == UNION {[1..k -> S] : k \in 0..n}

----------------------------------------------------------------------------
(* Sorting: Series.sort_values / DataFrame.sort_values with the default    *)
(* kind="quicksort".  The sort is not stable: which of two equal keys      *)
(* comes first is fixed by the numpy build, not by the program, so it is   *)
(* the parameter ties, a priority over positions chosen once in Init.      *)

\* positions 1..n in ascending order of key; less[i][j]: key i < key j
argsort(n, less, ties) ==
    LET Before(j, i) == \/ less[j][i]
                        \/ (~less[i][j] /\ ties[j] < ties[i])
    IN  [k \in 1..n |->
            CHOOSE i \in 1..n : Cardinality({j \in 1..n : Before(j, i)}) = k - 1]

----------------------------------------------------------------------------
(* MeanEncoder *)

RECURSIVE SumPrice(_, _), CountCat(_, _)
SumPrice(X, c) ==
    IF X = <<>> THEN 0
    ELSE (IF Head(X).cat = c THEN Head(X).resale_price ELSE 0) + SumPrice(Tail(X), c)
CountCat(X, c) ==
    IF X = <<>> THEN 0
    ELSE (IF Head(X).cat = c THEN 1 ELSE 0) + CountCat(Tail(X), c)

\* the categories present, in the order of their first row
groupby_unsorted(X) ==
    LET firsts == SelectSeq([i \in DOMAIN X |-> i],
                            LAMBDA i : \A j \in 1..(i - 1) : X[j].cat # X[i].cat)
    IN  [k \in DOMAIN firsts |-> X[firsts[k]].cat]
\* X.groupby(self.column): the categories present, in sorted key order
groupby(X) == SelectSeq(CatKeys, LAMBDA c : \E i \in DOMAIN X : X[i].cat = c)

\* .resale_price.mean(): the arithmetic mean of a group, as a fraction
mean(X, c) == [sum |-> SumPrice(X, c), cnt |-> CountCat(X, c)]

MeanLessDesc(m1, m2) == m1.sum * m2.cnt > m2.sum * m1.cnt
\* m1 < m2 for two means (both counts are positive)
MeanLess(m1, m2) == m1.sum * m2.cnt < m2.sum * m1.cnt

\* counts.index: the group keys after .sort_values() on the means
counts_index(X, ties) ==
    LET keys == groupby(X)
        means == [i \in 1..Len(keys) |-> mean(X, keys[i])]
        less == [i \in 1..Len(keys) |->
                    [j \in 1..Len(keys) |-> MeanLess(means[i], means[j])]]
        order == argsort(Len(keys), less, ties)
    IN  [k \in 1..Len(keys) |-> keys[order[k]]]

\* {cat: i for i, cat in enumerate(counts.index)}
fit_encoding(X, ties) ==
    LET idx == counts_index(X, ties)
    IN  [c \in {idx[k] : k \in DOMAIN idx} |->
            (CHOOSE k \in DOMAIN idx : idx[k] = c) - 1]

InvertByKeyOrder(enc) ==
    LET keys == SelectSeq(CatKeys, LAMBDA c : c \in DOMAIN enc)
    IN  [i \in 0..(Len(keys) - 1) |-> keys[i + 1]]
\* {i: cat for cat, i in self.encoding.items()}
fit_inverse(enc) ==
    [i \in {enc[c] : c \in DOMAIN enc} |-> CHOOSE c \in DOMAIN enc : enc[c] = i]

\* Series.apply(lambda x: table[x]): the lambda runs once per element, so an
\* empty Series yields an empty Series whatever table is; subscripting None
\* raises TypeError, a missing key raises KeyError.
apply_lookup(table, xs) ==
    IF xs = <<>> THEN [exc |-> "None", val |-> <<>>]
    ELSE IF table = None THEN [exc |-> "TypeError", val |-> <<>>]
    ELSE IF \E i \in DOMAIN xs : xs[i] \notin DOMAIN table.d
         THEN [exc |-> "KeyError", val |-> <<>>]
    ELSE [exc |-> "None", val |-> [i \in DOMAIN xs |-> table.d[xs[i]]]]

transform(enc, X) == apply_lookup(enc, X)

inverse_transform(inv, X) == apply_lookup(inv, X)

FitInputs == SeqsUpTo([cat : Cats, resale_price : Prices], MaxSamples)
\* the DataFrames given to transform: no row, or one row naming a category
TransformInputs == {<<>>} \cup {<<c>> : c \in Cats}
\* the Series given to inverse_transform: no row, or one row holding a rank
InverseInputs == {<<>>} \cup {<<r>> : r \in 0..(Len(CatKeys) - 1)}

\* MeanEncoder.__init__
EncInit ==
    /\ encoding = None
    /\ inverse_encoding = None
    /\ encOut = [op |-> "init", arg |-> <<>>, exc |-> "None", val |-> <<>>]

\* MeanEncoder.fit(X)
Fit(X) ==
    /\ \E enc \in {fit_encoding(X, argsortTies)} :
          /\ encoding' = Dict(enc)
          /\ inverse_encoding' = Dict(fit_inverse(enc))
    /\ encOut' = [op |-> "fit", arg |-> <<>>, exc |-> "None", val |-> <<>>]
    /\ UNCHANGED <<trainX, argsortTies, qryVars, appVars>>

\* MeanEncoder.transform(X)
Transform(X) ==
    /\ encOut' = [op |-> "transform", arg |-> X,
                  exc |-> transform(encoding, X).exc,
                  val |-> transform(encoding, X).val]
    /\ UNCHANGED <<encoding, inverse_encoding, trainX, argsortTies, qryVars, appVars>>

\* MeanEncoder.inverse_transform(X)
InverseTransform(X) ==
    /\ encOut' = [op |-> "inverse_transform", arg |-> X,
                  exc |-> inverse_transform(inverse_encoding, X).exc,
                  val |-> inverse_transform(inverse_encoding, X).val]
    /\ UNCHANGED <<encoding, inverse_encoding, trainX, argsortTies, qryVars, appVars>>

----------------------------------------------------------------------------
(* count_nearby *)

\* facility identifiers and the grid positions of facilities and query points
Names == {"A", "B"}
Locs == {0, 2, 4}
Points == {0, 5}
\* radius_km of the callers, in hundredths of a kilometre: 0.5 and 1
Radii == {50, 100}

Abs(n) == IF n < 0 THEN -n ELSE n

Str(p) == [t |-> "str", p |-> p]
Tuple(p) == [t |-> "tuple", p |-> p]

\* eval(x) if isinstance(x, str) else x
eval_if_str(x) == IF x.t = "str" THEN Tuple(x.p) ELSE x

\* geodesic(a, b): one grid step is 0.25 km
geodesic(a, b) == 25 * Abs(a.p - b.p)

\* round(km, 1): to the nearest tenth, an exact half to the even tenth
round1_floor(h) == h \div 10
round1(h) ==
    LET q == h \div 10
        r == h % 10
    IN  IF r < 5 THEN q
        ELSE IF r > 5 THEN q + 1
        ELSE IF q % 2 = 0 THEN q ELSE q + 1

\* a conversion written back onto the column that converts again what an
\* earlier call has already converted
parse_latlong_again(rows) ==
    [i \in DOMAIN rows |->
        [rows[i] EXCEPT !.latlong = IF rows[i].latlong.t = "str"
                                    THEN Tuple(rows[i].latlong.p)
                                    ELSE Tuple(rows[i].latlong.p + 1)]]
\* df[latlong_col] = df[latlong_col].apply(lambda x: eval(x) if isinstance(x, str) else x)
parse_latlong(rows) ==
    [i \in DOMAIN rows |-> [rows[i] EXCEPT !.latlong = eval_if_str(rows[i].latlong)]]

\* df["km"] = df[latlong_col].apply(lambda x: geodesic(x_loc, x))
km_column(rows, x_loc) ==
    [i \in DOMAIN rows |-> geodesic(x_loc, rows[i].latlong)]

within_strict(km, radius_km) == km < radius_km
\* df["km"] <= radius_km
within(km, radius_km) == km <= radius_km

\* df["km"].min()
RECURSIVE min(_)
min(km) ==
    IF Len(km) = 1 THEN km[1]
    ELSE LET m == min(Tail(km)) IN IF km[1] <= m THEN km[1] ELSE m

RECURSIVE unique_last(_)
unique_last(xs) ==
    IF xs = <<>> THEN <<>>
    ELSE LET init == SubSeq(xs, 1, Len(xs) - 1)
             x == xs[Len(xs)]
         IN  unique_last(SelectSeq(init, LAMBDA y : y # x)) \o <<x>>
\* Series.unique(): each value once, in order of first appearance
RECURSIVE unique(_)
unique(xs) ==
    IF xs = <<>> THEN <<>>
    ELSE <<Head(xs)>> \o unique(SelectSeq(Tail(xs), LAMBDA y : y # Head(xs)))

\* count_nearby(x, df, radius_km, name_col): the DataFrame as the call leaves
\* it and what the call returns or raises
count_nearby(x, D, radius_km, name_col, ties) ==
    LET x_loc == eval_if_str(x)
        rows == parse_latlong(D.rows)
        km == km_column(rows, x_loc)
        D1 == [rows |-> rows, km |-> [t |-> "col", d |-> km]]
        sel == SelectSeq([i \in DOMAIN rows |-> i], LAMBDA i : within(km[i], radius_km))
        count == Len(sel)
        less == [i \in 1..Len(sel) |-> [j \in 1..Len(sel) |-> km[sel[i]] < km[sel[j]]]]
        order == argsort(Len(sel), less, ties)
        sorted == [k \in 1..Len(sel) |-> rows[sel[order[k]]][name_col]]
    IN  IF rows = <<>>
        \* df["km"].min() of an empty column is nan, and nan has no .km
        THEN [df |-> D1, exc |-> "AttributeError", count |-> 0, nearest |-> 0, ids |-> <<>>]
        ELSE [df |-> D1, exc |-> "None", count |-> count,
              nearest |-> round1(min(km)), ids |-> unique(sorted)]

\* the facility DataFrames as retrieve_csv loads them: coordinates are strings
Collections == SeqsUpTo([name : Names, latlong : {Str(p) : p \in Locs}], MaxRows)
XInputs == {Str(p) : p \in Points} \cup {Tuple(p) : p \in Points}

\* one call of count_nearby on the shared DataFrame
Query(x, radius_km) ==
    \E r \in {count_nearby(x, df, radius_km, "name", argsortTies)} :
        /\ df' = r.df
        /\ last' = [x |-> eval_if_str(x), radius_km |-> radius_km, exc |-> r.exc,
                    count |-> r.count, nearest |-> r.nearest, ids |-> r.ids]
        /\ first' = IF first = None THEN last' ELSE first
        /\ between' = (first # None /\
                          (between \/ first.x # last'.x \/ first.radius_km # radius_km))
        /\ UNCHANGED <<df0, argsortTies, encVars, appVars>>

\* st.session_state.clicked_coords = []: geopy reads an empty sequence as
\* Point(), latitude 0 and longitude 0, far from every facility
NoClick == [t |-> "list", p |-> -40000]

\* main: the session state before the first script run
SessionInit ==
    /\ page = "main"
    /\ clicked_coords = NoClick
    /\ town = <<>>
    /\ ui = [run |-> "none", submitted |-> FALSE, shown |-> "none", info |-> None]

AppIdle ==
    /\ variant = "resale"
    /\ SessionInit

InitQuery ==
    /\ AppIdle
    /\ df0 \in Collections
    /\ df = [rows |-> df0, km |-> None]
    /\ last = None
    /\ first = None
    /\ between = FALSE
    /\ argsortTies \in TieOrders(MaxRows)
    /\ EncInit
    /\ trainX = <<>>

NextQuery == \E x \in XInputs, radius_km \in Radii : Query(x, radius_km)

SpecQuery == InitQuery /\ [][NextQuery]_vars

QryIdle ==
    /\ df0 = <<>>
    /\ df = [rows |-> <<>>, km |-> None]
    /\ last = None
    /\ first = None
    /\ between = FALSE

InitEnc ==
    /\ AppIdle
    /\ EncInit
    /\ trainX \in FitInputs
    /\ argsortTies \in TieOrders(Len(CatKeys))
    /\ QryIdle

NextEnc ==
    \/ Fit(trainX)
    \/ \E X \in TransformInputs : Transform(X)
    \/ \E X \in InverseInputs : InverseTransform(X)

SpecEnc == InitEnc /\ [][NextEnc]_vars

----------------------------------------------------------------------------
(* The application: main, main_page, display_price_page.                   *)
(* The feature vector is modelled by its region slot; the slots of the     *)
(* other facility DataFrames, of the price index and of the form are left  *)
(* out, they neither read nor write the region slot.                       *)

Variants == {"resale", "st"}

\* radius_km of the region query: 1 in resale-price-predictor.py, 0.5 in st.py
TownRadius(v) == IF v = "resale" THEN 100 ELSE 50

\* bool(st.session_state.clicked_coords)
Truthy(c) == c.t # "list"

main_page_branch_no_town(submitted, ids, clicked) ==
    IF submitted /\ Truthy(clicked) THEN "display_price"
    ELSE IF submitted /\ ids = <<>> THEN "not_serviceable"
    ELSE "form"
\* if submitted and town and clicked_coords: ... elif submitted and not town: ...
main_page_branch(submitted, ids, clicked) ==
    IF submitted /\ ids # <<>> /\ Truthy(clicked) THEN "display_price"
    ELSE IF submitted /\ ids = <<>> THEN "not_serviceable"
    ELSE "form"

\* what the user sees when a page function raises: main of
\* resale-price-predictor.py catches it, main of st.py does not
on_exception(v) == IF v = "resale" THEN "app_error" ELSE "crash"

iloc_last(xs) == xs[Len(xs)]
\* Series.iloc[0]
iloc0(xs) == xs[1]

\* int(encoder.transform(pd.DataFrame({"town": towns})).iloc[0])
town_enc(enc, towns) ==
    LET t == transform(enc, towns)
    IN  IF t.exc # "None" THEN [exc |-> t.exc, val |-> 0]
        ELSE IF t.val = <<>> THEN [exc |-> "IndexError", val |-> 0]
        ELSE [exc |-> "None", val |-> iloc0(t.val)]

\* the training frames of the encoder the application loads: two or three
\* towns, one row each, with different prices
AppTrainInputs ==
    {X \in FitInputs :
        /\ Len(X) >= 2
        /\ \A i \in DOMAIN X : X[i].resale_price = 100 * i
        /\ \A i, j \in DOMAIN X : X[i].cat = X[j].cat => i = j}

\* street_blocks.csv as retrieve_csv loads it
BlockCollections == SeqsUpTo([town : Cats, latlong : {Str(p) : p \in Locs}], MaxBlocks)

CallRecord(x, radius_km, r) ==
    [x |-> eval_if_str(x), radius_km |-> radius_km, exc |-> r.exc,
     count |-> r.count, nearest |-> r.nearest, ids |-> r.ids]

\* display_coordinates_map: a click on the map of the main page
Click(p) ==
    /\ page = "main"
    /\ clicked_coords' = Tuple(p)
    /\ UNCHANGED <<variant, page, town, ui, encVars, argsortTies, qryVars>>

\* one run of main while page is "main": main_page
RunMain(submitted) ==
    /\ page = "main"
    /\ \E r \in {count_nearby(clicked_coords, [rows |-> df0, km |-> None],
                              TownRadius(variant), "town", argsortTies)} :
          /\ df' = r.df
          /\ last' = CallRecord(clicked_coords, TownRadius(variant), r)
          /\ IF r.exc # "None"
             THEN /\ ui' = [run |-> "main", submitted |-> submitted,
                            shown |-> on_exception(variant), info |-> None]
                  /\ UNCHANGED <<page, town>>
             ELSE \E b \in {main_page_branch(submitted, r.ids, clicked_coords)} :
                  /\ ui' = [run |-> "main", submitted |-> submitted,
                            shown |-> IF b = "display_price" THEN "rerun" ELSE b,
                            info |-> None]
                  /\ page' = IF b = "display_price" THEN "display_price" ELSE page
                  /\ town' = IF b = "display_price" /\ variant = "resale"
                             THEN r.ids ELSE town
    /\ UNCHANGED <<variant, clicked_coords, encVars, argsortTies, df0, first, between>>

\* the towns display_price_page encodes: st.session_state.town, or in st.py
\* the ids of a second region query on the session's DataFrame
price_page_towns(v, r) == IF v = "resale" THEN [exc |-> "None", ids |-> town]
                          ELSE [exc |-> r.exc, ids |-> r.ids]

\* one run of main while page is "display_price": display_price_page
RunPrice ==
    /\ page = "display_price"
    /\ \E r \in {count_nearby(clicked_coords, df, TownRadius(variant), "town", argsortTies)} :
          /\ df' = IF variant = "st" THEN r.df ELSE df
          /\ last' = IF variant = "st"
                     THEN CallRecord(clicked_coords, TownRadius(variant), r) ELSE last
          /\ \E t \in {price_page_towns(variant, r)} :
             \E e \in {town_enc(encoding, t.ids)} :
               ui' = IF t.exc # "None" \/ e.exc # "None"
                     THEN [run |-> "price", submitted |-> FALSE,
                           shown |-> on_exception(variant), info |-> None]
                     ELSE [run |-> "price", submitted |-> FALSE,
                           shown |-> "price", info |-> [town_enc |-> e.val]]
    /\ UNCHANGED <<variant, page, clicked_coords, town, encVars, argsortTies,
                   df0, first, between>>

\* return_main: the button under the predicted price
ReturnMain ==
    /\ page = "display_price"
    /\ ui.shown = "price"
    /\ page' = "main"
    /\ UNCHANGED <<variant, clicked_coords, town, ui, encVars, argsortTies, qryVars>>

InitApp ==
    /\ variant \in Variants
    /\ SessionInit
    /\ argsortTies \in TieOrders(Len(CatKeys) + MaxBlocks)
    /\ trainX \in AppTrainInputs
    /\ encoding = Dict(fit_encoding(trainX, argsortTies))
    /\ inverse_encoding = Dict(fit_inverse(encoding.d))
    /\ encOut = [op |-> "fit", arg |-> <<>>, exc |-> "None", val |-> <<>>]
    /\ df0 \in BlockCollections
    /\ df = [rows |-> df0, km |-> None]
    /\ last = None
    /\ first = None
    /\ between = FALSE

NextApp ==
    \/ \E p \in Points : Click(p)
    \/ \E submitted \in BOOLEAN : RunMain(submitted)
    \/ RunPrice
    \/ ReturnMain

SpecApp == InitApp /\ [][NextApp]_vars

----------------------------------------------------------------------------
(* Claims about MeanEncoder, checked under SpecEnc *)

Fitted == encoding # None
TrainCats == {trainX[i].cat : i \in DOMAIN trainX}

\* C1: after fit on a non-empty dataset with N distinct categories the ranks
\* of the encoding table are exactly 0..N-1, one category each, and a lower
\* rank never has a larger arithmetic mean of resale_price than a higher one.
C1_DenseRanksAscendingMean ==
    (Fitted /\ trainX # <<>>) =>
        LET enc == encoding.d
            N == Cardinality(TrainCats)
        IN  /\ DOMAIN enc = TrainCats
            /\ {enc[c] : c \in TrainCats} = 0..(N - 1)
            /\ \A a, b \in TrainCats : enc[a] = enc[b] => a = b
            /\ \A a, b \in TrainCats :
                  enc[a] < enc[b] =>
                      SumPrice(trainX, a) * CountCat(trainX, b)
                          <= SumPrice(trainX, b) * CountCat(trainX, a)

\* the example of the specification: East:100, West:300, North:200
C1_Witness ==
    /\ trainX = << [cat |-> "East", resale_price |-> 100],
                   [cat |-> "West", resale_price |-> 300],
                   [cat |-> "North", resale_price |-> 200] >>
    /\ Fitted
    /\ encoding.d["East"] = 0 /\ encoding.d["North"] = 1 /\ encoding.d["West"] = 2

\* C2: on a fitted encoder transform and inverse_transform undo each other:
\* every rank 0..N-1 maps to a category that transforms back to that rank,
\* and every category seen during fit maps to a rank that inverts to it.
C2_RoundTrip ==
    Fitted =>
        LET N == Cardinality(DOMAIN encoding.d)
        IN  /\ \A r \in 0..(N - 1) :
                  LET c == inverse_transform(inverse_encoding, <<r>>)
                  IN  /\ c.exc = "None"
                      /\ transform(encoding, c.val) = [exc |-> "None", val |-> <<r>>]
            /\ \A c \in TrainCats :
                  LET r == transform(encoding, <<c>>)
                  IN  /\ r.exc = "None"
                      /\ inverse_transform(inverse_encoding, r.val)
                             = [exc |-> "None", val |-> <<c>>]

\* three categories fitted with two of them out of key order, and an
\* inverse_transform call that has just returned the category of its rank
C2_Witness ==
    /\ Fitted
    /\ Cardinality(DOMAIN encoding.d) = 3
    /\ encoding.d["West"] = 0
    /\ encOut.op = "inverse_transform"
    /\ encOut.exc = "None"
    /\ encOut.val = <<"West">>
    /\ transform(encoding, encOut.val).val = encOut.arg

\* C9: transform of a category not seen during fit fails with
\* UnknownCategoryError on every fitted encoder.
C9_UnknownCategoryError ==
    (/\ encOut.op = "transform"
     /\ Fitted
     /\ trainX # <<>>
     /\ \E i \in DOMAIN encOut.arg : encOut.arg[i] \notin TrainCats)
        => encOut.exc = "UnknownCategoryError"

\* C10: a new encoder is Unfit, a fit leaves it Fit, and transform and
\* inverse_transform on an Unfit encoder fail with NotFittedError.
C10_NotFittedError ==
    /\ encOut.op = "init" => ~Fitted
    /\ encOut.op = "fit" => Fitted
    /\ (encOut.op \in {"transform", "inverse_transform"} /\ ~Fitted)
          => encOut.exc = "NotFittedError"

\* the part of C10 the code keeps: no step takes a Fit encoder back to Unfit
C10_OneWay == [][Fitted => Fitted']_vars

----------------------------------------------------------------------------
(* Claims about count_nearby, checked under SpecQuery *)

Queried == last # None
Returned == Queried /\ last.exc = "None"
\* the precondition of a query: the collection has a record
NonEmpty == Queried /\ df0 # <<>>

\* distance, in hundredths of a kilometre, from the point of the last call
\* to record i of the collection as it was loaded
Dist(i) == 25 * Abs(df0[i].latlong.p - last.x.p)
InRadius == {i \in DOMAIN df0 : Dist(i) <= last.radius_km}
MinDist == CHOOSE d \in {Dist(i) : i \in DOMAIN df0} : \A i \in DOMAIN df0 : d <= Dist(i)
\* the distance of the closest record carrying identifier n
NameDist(n) ==
    CHOOSE d \in {Dist(i) : i \in {j \in DOMAIN df0 : df0[j].name = n}} :
        \A i \in DOMAIN df0 : df0[i].name = n => d <= Dist(i)

\* C3: on a non-empty collection the call returns, and count is the number
\* of records whose distance to the point is at most radius_km; a record at
\* exactly radius_km counts, and so does every duplicate of an identifier.
C3_CountWithinRadius ==
    NonEmpty => (last.exc = "None" /\ last.count = Cardinality(InRadius))

\* two records of the same identifier, one of them exactly on the radius
C3_Witness ==
    /\ Returned
    /\ last.count = 2
    /\ Len(df0) = 3
    /\ \E i, j \in InRadius :
          i # j /\ df0[i].name = df0[j].name /\ Dist(i) = last.radius_km
    /\ \E i \in DOMAIN df0 : Dist(i) > last.radius_km

\* C4: ids holds the identifiers of exactly the records within radius_km,
\* each once, in ascending order of the distance of the identifier's closest
\* record; a radius that covers every record yields every identifier.
C4_IdsSortedUnique ==
    NonEmpty =>
        /\ last.exc = "None"
        /\ {last.ids[k] : k \in DOMAIN last.ids} = {df0[i].name : i \in InRadius}
        /\ \A k, l \in DOMAIN last.ids : last.ids[k] = last.ids[l] => k = l
        /\ \A k, l \in DOMAIN last.ids :
              k < l => NameDist(last.ids[k]) <= NameDist(last.ids[l])
        /\ (\A i \in DOMAIN df0 : Dist(i) <= last.radius_km) =>
              {last.ids[k] : k \in DOMAIN last.ids} = {df0[i].name : i \in DOMAIN df0}

\* an identifier listed first although its first record is the farthest one:
\* rows A (1 km), B (0.5 km), A (0 km) give ids = [A, B]
C4_Witness ==
    /\ Returned
    /\ Len(df0) = 3
    /\ df0[1].name = "A" /\ df0[2].name = "B" /\ df0[3].name = "A"
    /\ Dist(1) = 100 /\ Dist(2) = 50 /\ Dist(3) = 0
    /\ last.radius_km = 100
    /\ last.ids = <<"A", "B">>

\* C5: nearest is the smallest distance over all records, rounded to one
\* decimal, whatever radius_km is; when no record lies within the radius the
\* call returns count 0, no id, and the nearest distance of a record that is
\* farther away than radius_km.
C5_NearestOverAll ==
    NonEmpty =>
        /\ last.exc = "None"
        /\ 10 * last.nearest - MinDist \in -5..5
        /\ Abs(10 * last.nearest - MinDist) = 5 => last.nearest % 2 = 0
        /\ InRadius = {} =>
              /\ last.count = 0
              /\ last.ids = <<>>
              /\ MinDist > last.radius_km

\* nothing within 1 km, the closest record 1.25 km away, reported as 1.2
C5_Witness ==
    /\ Returned
    /\ InRadius = {}
    /\ last.radius_km = 100
    /\ MinDist = 125
    /\ last.nearest = 12
    /\ last.count = 0

\* C6: a call on an empty collection returns count 0, no id and a defined
\* nearest value, and raises nothing.
C6_EmptyCollection ==
    (Queried /\ df0 = <<>>) =>
        /\ last.exc = "None"
        /\ last.count = 0
        /\ last.ids = <<>>

\* C7: the collection given to count_nearby is unchanged by any sequence of
\* calls: same columns, same values, no distance column.
C7_CollectionUnchanged ==
    /\ df.rows = df0
    /\ df.km = None

\* C8: a call with the arguments of the first call returns what the first
\* call returned, also after calls with another point or radius.
C8_Idempotent ==
    (Queried /\ last.x = first.x /\ last.radius_km = first.radius_km) =>
        /\ last.exc = first.exc
        /\ last.count = first.count
        /\ last.nearest = first.nearest
        /\ last.ids = first.ids

\* the first call repeated after a call from another point, on a collection
\* where the two points see different counts
C8_Witness ==
    /\ Returned
    /\ between
    /\ last.x = first.x /\ last.radius_km = first.radius_km
    /\ Len(df0) = 3
    /\ last.count = 3
    /\ last.ids = <<"B", "A">>

----------------------------------------------------------------------------
(* Claims about the application, checked under SpecApp *)

\* distance from the selected point to record i of street_blocks
BlockDist(i) == 25 * Abs(df0[i].latlong.p - clicked_coords.p)
BlocksInRadius == {i \in DOMAIN df0 : BlockDist(i) <= TownRadius(variant)}

\* C11: a submit whose region query returns no id shows the not-serviceable
\* message, stays on the main page and posts nothing to the predictor; the
\* price page is entered only by a submit whose region query returned an id.
C11_NotServiceable ==
    /\ (ui.run = "main" /\ ui.submitted /\ last.exc = "None" /\ last.ids = <<>>) =>
          /\ ui.shown = "not_serviceable"
          /\ page = "main"
          /\ ui.info = None
    /\ ui.run = "main" => ui.info = None
    /\ page = "display_price" =>
          /\ last # None
          /\ last.exc = "None"
          /\ last.ids # <<>>
          /\ BlocksInRadius # {}
          /\ ui.run = "main" => ui.submitted

\* a point was clicked, street_blocks has records, none within the radius,
\* and the submit has just been answered with the message
C11_Witness ==
    /\ ui.run = "main" /\ ui.submitted
    /\ ui.shown = "not_serviceable"
    /\ Truthy(clicked_coords)
    /\ last.x = clicked_coords
    /\ Len(df0) = 2
    /\ BlocksInRadius = {}
    /\ page = "main"

\* the price page has just posted a feature vector for the selected point
Posted == page = "display_price" /\ ui.run = "price" /\ ui.info # None

\* the price page has run for a point whose nearest region the encoder knows
PriceRunNearestKnown ==
    /\ page = "display_price" /\ ui.run = "price"
    /\ last.exc = "None" /\ last.ids # <<>>
    /\ last.ids[1] \in DOMAIN encoding.d

\* C12: when the region query returns ids, the resolved region is the first
\* id, and the feature vector posted to the predictor carries the encoder's
\* rank of that region, whatever other regions lie within the radius.
C12_NearestRegionCode ==
    PriceRunNearestKnown =>
        /\ ui.info # None
        /\ ui.info.town_enc = encoding.d[last.ids[1]]

\* the part of C12 the code keeps: a feature vector that is posted carries
\* the rank of the first id, the town of a closest record
C12_PostedCodeIsNearest ==
    Posted =>
        /\ last.exc = "None"
        /\ last.ids # <<>>
        /\ ui.info.town_enc = encoding.d[last.ids[1]]
        /\ \E i \in BlocksInRadius :
              /\ df0[i].town = last.ids[1]
              /\ \A j \in DOMAIN df0 : BlockDist(i) <= BlockDist(j)

\* two towns within the radius, the nearer one listed second in
\* street_blocks and ranked higher by the encoder, and its rank posted
C12_PostedWitness ==
    /\ Posted
    /\ Len(df0) = 2
    /\ BlocksInRadius = {1, 2}
    /\ df0[1].town # df0[2].town
    /\ BlockDist(2) < BlockDist(1)
    /\ encoding.d[df0[2].town] > encoding.d[df0[1].town]
    /\ ui.info.town_enc = encoding.d[df0[2].town]

----------------------------------------------------------------------------
(* Ties of the encoder, checked under SpecEnc *)

FirstOccurrence(c) ==
    CHOOSE i \in DOMAIN trainX :
        trainX[i].cat = c /\ \A j \in 1..(i - 1) : trainX[j].cat # c
EqualMean(a, b) ==
    SumPrice(trainX, a) * CountCat(trainX, b) = SumPrice(trainX, b) * CountCat(trainX, a)

\* C13 as stated: categories with equal means are ranked in the order of
\* their first occurrence in the input samples.
C13_TiesByFirstOccurrence ==
    Fitted =>
        \A a, b \in TrainCats :
            (EqualMean(a, b) /\ FirstOccurrence(a) < FirstOccurrence(b))
                => encoding.d[a] < encoding.d[b]

\* the frame X with its rows i and i + 1 exchanged
SwapRows(X, i) ==
    [k \in DOMAIN X |-> IF k = i THEN X[i + 1] ELSE IF k = i + 1 THEN X[i] ELSE X[k]]

\* C13 as amended: the ranks fit gives, those of categories with equal means
\* included, do not depend on the order of the input rows: exchanging two
\* neighbouring rows of the frame leaves the encoding table as it is.
C13_TiesIndependentOfRowOrder ==
    (Fitted /\ encOut.op = "fit") =>
        \A i \in 1..(Len(trainX) - 1) :
            fit_encoding(SwapRows(trainX, i), argsortTies) = encoding.d

\* two categories with equal means, first seen in the reverse of their key
\* order, and ranked in key order all the same
C13_Witness ==
    /\ Fitted /\ encOut.op = "fit"
    /\ Len(trainX) = 3
    /\ trainX[1].cat = "West" /\ trainX[2].cat = "East" /\ trainX[3].cat = "West"
    /\ EqualMean("East", "West")
    /\ encoding.d["East"] = 0
    /\ encoding.d["West"] = 1

====
